---- MODULE Spec2Model ----
(***************************************************************************)
(* A model of src/src/main.rs: the turn loop of the dungeon crawler, its   *)
(* combat, AI, inventory and item-effect functions.                        *)
(*                                                                         *)
(* Conventions.                                                            *)
(*  - Vec<T> is a TLA+ sequence read with 0-based indices through At, so   *)
(*    that PLAYER = 0 as in the source.                                    *)
(*  - Option<T> is a sequence of length 0 (None) or 1 (Some(v)).           *)
(*  - f32 distances are compared through their squares: for the integers   *)
(*    that occur, sqrt(a) < sqrt(b) in f32 exactly when a < b.             *)
(*  - map is the set of coordinates whose tile is Tile::empty(); every     *)
(*    other coordinate of the MAP_WIDTH x MAP_HEIGHT grid is Tile::wall().  *)
(*  - messages holds the entries game.messages gained since the last key   *)
(*    was read: the log is append-only and no game logic reads it.         *)
(***************************************************************************)
EXTENDS Integers, Sequences, FiniteSets

VARIABLES
    game_objects,               \* main: Vec<GameObject>
    inventory,                  \* game.inventory
    messages,                   \* game.messages (entries of this iteration)
    map,                        \* game.map (the set of empty tiles)
    previous_player_position,   \* main: where tcod.fov was last computed
    player_action,              \* main: what handle_keys returned last
    pc,                         \* where the program is
    ai_id,                      \* main: the id of the AI loop
    keys_left,                  \* keys a bounded run still reads (-1: any number)
    calls,                      \* the direct calls made, in a function-level run
    rooms,                      \* make_map: the rooms accepted (<<>> once it returned)
    rooms_tried                 \* make_map: iterations of its loop done (0 once it returned)

vars == <<game_objects, inventory, messages, map, previous_player_position,
          player_action, pc, ai_id, keys_left, calls, rooms, rooms_tried>>

(***************************************************************************)
(* Program constants.                                                      *)
(***************************************************************************)
SCREEN_HEIGHT == 50
PANEL_HEIGHT == 7
MAP_WIDTH == 80
MAP_HEIGHT == SCREEN_HEIGHT - PANEL_HEIGHT
ROOM_MAX_SIZE == 10
ROOM_MIN_SIZE == 5
MAX_ROOMS == 10
MAX_ROOM_MONSTERS == 3
MAX_ROOM_ITEMS == 3
HEAL_AMOUNT == 4
LIGHTNING_RANGE == 5
LIGHTNING_DAMAGE == 40
CONFUSION_RANGE == 5
CONFUSE_TURN_COUNT == 10
TORCH_RADIUS == 10
PLAYER == 0
INVENTORY_CAPACITY == 9

(***************************************************************************)
(* Vec and Option.                                                         *)
(***************************************************************************)
None == <<>>
Some(v) == <<v>>
is_some(o) == o # <<>>
unwrap(o) == o[1]

At(v, i) == v[i + 1]
Ids(v) == 0 .. (Len(v) - 1)
Set(v, i, e) == [v EXCEPT ![i + 1] = e]

\* Vec::remove(i): the elements after i shift down.
remove(v, i) == SubSeq(v, 1, i) \o SubSeq(v, i + 2, Len(v))

\* Vec::swap_remove(i): the last element takes the place of element i.
swap_remove(v, i) ==
    IF i = Len(v) - 1
    THEN SubSeq(v, 1, Len(v) - 1)
    ELSE SubSeq(Set(v, i, At(v, Len(v) - 1)), 1, Len(v) - 1)

\* Iterator::position: the least of hits, the indices whose element
\* satisfies the predicate.
position(hits) ==
    IF hits = {} THEN None
    ELSE Some(CHOOSE i \in hits : \A j \in hits : i <= j)

(***************************************************************************)
(* Ai, Fighter, GameObject.                                                *)
(***************************************************************************)
Basic == [tag |-> "Basic"]
Confused(previous_ai, num_turns) ==
    [tag |-> "Confused", previous_ai |-> previous_ai, num_turns |-> num_turns]

Fighter(max_hp, hp, defense, power, on_death) ==
    [max_hp |-> max_hp, hp |-> hp, defense |-> defense, power |-> power,
     on_death |-> on_death]

GameObject_new(x, y, char, color, name, blocks) ==
    [x |-> x, y |-> y, char |-> char, color |-> color, name |-> name,
     blocks |-> blocks, is_alive |-> FALSE, fighter |-> None, ai |-> None,
     item |-> None]

pos(o) == <<o.x, o.y>>

\* distance_to, squared.
distance2(a, b) == (b.x - a.x) * (b.x - a.x) + (b.y - a.y) * (b.y - a.y)

\* main: the player as constructed before make_map places it.
NewPlayer(x, y) ==
    [GameObject_new(x, y, "@", "WHITE", "player", TRUE) EXCEPT
        !.is_alive = TRUE,
        !.fighter = Some(Fighter(30, 30, 2, 5, "Player"))]

\* place_game_objects: the two kinds of monster and the three kinds of item.
NewOrc(x, y) ==
    [GameObject_new(x, y, "o", "DESATURATED_GREEN", "orc", TRUE) EXCEPT
        !.fighter = Some(Fighter(10, 10, 0, 3, "Monster")),
        !.is_alive = TRUE,
        !.ai = Some(Basic)]

NewTroll(x, y) ==
    [GameObject_new(x, y, "t", "DARKER_GREEN", "troll", TRUE) EXCEPT
        !.fighter = Some(Fighter(16, 16, 1, 4, "Monster")),
        !.is_alive = TRUE,
        !.ai = Some(Basic)]

NewPotion(x, y) ==
    [GameObject_new(x, y, "!", "VIOLET", "healing potion", FALSE) EXCEPT
        !.item = Some("Heal")]

NewLightningScroll(x, y) ==
    [GameObject_new(x, y, "~", "LIGHT_YELLOW", "scroll of lightning bolt", FALSE)
        EXCEPT !.item = Some("ScrollOfLightning")]

NewConfusionScroll(x, y) ==
    [GameObject_new(x, y, "c", "LIGHT_YELLOW", "scroll of confusion", FALSE)
        EXCEPT !.item = Some("ScrollOfConfusion")]

(***************************************************************************)
(* The world a function works on: the entity vector, the inventory, the    *)
(* messages added, and panic, which names the panic that ended the run     *)
(* ("" while there is none).                                               *)
(***************************************************************************)
World(objs, inv, msgs) ==
    [game_objects |-> objs, inventory |-> inv, messages |-> msgs, panic |-> ""]

add(w, message) == [w EXCEPT !.messages = Append(@, message)]

Panic(w, what) == [w EXCEPT !.panic = what]

\* monster_death's format!("remains of {}", monster.name).
RemainsOf(name) == "remains of " \o name

(***************************************************************************)
(* Combat: take_damage, the death callbacks, attack, heal.                 *)
(***************************************************************************)
player_death(w, id) ==
    LET player == At(w.game_objects, id)
    IN [add(w, <<"You died!">>) EXCEPT
          !.game_objects = Set(@, id, [player EXCEPT !.char = "%",
                                                     !.color = "DARK_RED"])]

\* monster_death leaving the monster its Ai.
monster_death_keeps_ai(w, id) ==
    LET monster == At(w.game_objects, id)
    IN [add(w, <<"{} is dead !", monster.name>>) EXCEPT
          !.game_objects = Set(@, id,
              [monster EXCEPT !.char = "%", !.color = "DARK_RED",
                              !.blocks = FALSE, !.fighter = None,
                              !.name = RemainsOf(monster.name)])]

monster_death(w, id) ==
    LET monster == At(w.game_objects, id)
    IN [add(w, <<"{} is dead !", monster.name>>) EXCEPT
          !.game_objects = Set(@, id,
              [monster EXCEPT !.char = "%", !.color = "DARK_RED",
                              !.blocks = FALSE, !.fighter = None, !.ai = None,
                              !.name = RemainsOf(monster.name)])]

callback(on_death, w, id) ==
    IF on_death = "Player" THEN player_death(w, id) ELSE monster_death(w, id)

\* take_damage with death only below 0 hp.
take_damage_below_zero(w, id, damage) ==
    LET o == At(w.game_objects, id)
        hit == IF is_some(o.fighter) /\ damage > 0
               THEN [o EXCEPT !.fighter =
                        Some([unwrap(o.fighter) EXCEPT !.hp = @ - damage])]
               ELSE o
    IN IF is_some(hit.fighter) /\ unwrap(hit.fighter).hp < 0
       THEN callback(unwrap(hit.fighter).on_death,
                     [w EXCEPT !.game_objects =
                         Set(@, id, [hit EXCEPT !.is_alive = FALSE])],
                     id)
       ELSE [w EXCEPT !.game_objects = Set(@, id, hit)]

take_damage(w, id, damage) ==
    LET o == At(w.game_objects, id)
        hit == IF is_some(o.fighter) /\ damage > 0
               THEN [o EXCEPT !.fighter =
                        Some([unwrap(o.fighter) EXCEPT !.hp = @ - damage])]
               ELSE o
    IN IF is_some(hit.fighter) /\ unwrap(hit.fighter).hp <= 0
       THEN callback(unwrap(hit.fighter).on_death,
                     [w EXCEPT !.game_objects =
                         Set(@, id, [hit EXCEPT !.is_alive = FALSE])],
                     id)
       ELSE [w EXCEPT !.game_objects = Set(@, id, hit)]

power_of(o) == IF is_some(o.fighter) THEN unwrap(o.fighter).power ELSE 0
defense_of(o) == IF is_some(o.fighter) THEN unwrap(o.fighter).defense ELSE 0

\* attack without the target's defense.
attack_ignoring_defense(w, attacker_id, target_id) ==
    LET attacker == At(w.game_objects, attacker_id)
        target == At(w.game_objects, target_id)
        damage == power_of(attacker)
    IN IF damage > 0
       THEN take_damage(
                add(w, <<"{} attacks {} for {} hp.", attacker.name, target.name,
                         damage>>),
                target_id, damage)
       ELSE add(w, <<"{} attacks {}, but it has no effect!", attacker.name,
                     target.name>>)

attack(w, attacker_id, target_id) ==
    LET attacker == At(w.game_objects, attacker_id)
        target == At(w.game_objects, target_id)
        damage == power_of(attacker) - defense_of(target)
    IN IF damage > 0
       THEN take_damage(
                add(w, <<"{} attacks {} for {} hp.", attacker.name, target.name,
                         damage>>),
                target_id, damage)
       ELSE add(w, <<"{} attacks {}, but it has no effect!", attacker.name,
                     target.name>>)

\* heal without the cap at max_hp.
heal_past_max_hp(o, amount) ==
    IF is_some(o.fighter)
    THEN [o EXCEPT !.fighter = Some([unwrap(o.fighter) EXCEPT !.hp = @ + amount])]
    ELSE o

heal(o, amount) ==
    IF is_some(o.fighter)
    THEN LET f == unwrap(o.fighter)
             hp == f.hp + amount
         IN [o EXCEPT !.fighter =
                Some([f EXCEPT !.hp = IF hp > f.max_hp THEN f.max_hp ELSE hp])]
    ELSE o

\* mut_two's assert!(first_index != second_index).
mut_two(first_index, second_index) == first_index # second_index

(***************************************************************************)
(* Movement and blocking.                                                  *)
(***************************************************************************)
InGrid(x, y) == x \in 0 .. (MAP_WIDTH - 1) /\ y \in 0 .. (MAP_HEIGHT - 1)

\* is_blocked without the test of the entities.
is_blocked_by_tile_only(x, y, tiles, objs) ==
    <<x, y>> \notin tiles

is_blocked(x, y, tiles, objs) ==
    \/ <<x, y>> \notin tiles
    \/ \E i \in Ids(objs) : At(objs, i).blocks /\ pos(At(objs, i)) = <<x, y>>

\* map[x as usize][y as usize] panics outside the grid.
move_game_object_by(w, id, dx, dy, tiles) ==
    LET o == At(w.game_objects, id)
    IN IF ~InGrid(o.x + dx, o.y + dy)
       THEN Panic(w, "index out of bounds")
       ELSE IF ~is_blocked(o.x + dx, o.y + dy, tiles, w.game_objects)
       THEN [w EXCEPT !.game_objects =
                Set(@, id, [o EXCEPT !.x = o.x + dx, !.y = o.y + dy])]
       ELSE w

\* (d as f32 / distance).round() as i32: 1 in absolute value exactly when
\* |d| / distance >= 0.5, that is 4 d^2 >= distance^2; 0/0 is NaN and
\* NaN as i32 is 0.
unit_step(d, dist2) ==
    IF dist2 = 0 \/ 4 * d * d < dist2 THEN 0 ELSE IF d > 0 THEN 1 ELSE -1

move_game_object_toward(w, id, target_x, target_y, tiles) ==
    LET dx == target_x - At(w.game_objects, id).x
        dy == target_y - At(w.game_objects, id).y
        dist2 == dx * dx + dy * dy
    IN move_game_object_by(w, id, unit_step(dx, dist2), unit_step(dy, dist2), tiles)

(***************************************************************************)
(* The field of view is tcod's: computed by render_all at the player's     *)
(* position (origin) with radius TORCH_RADIUS.  The levels of this model   *)
(* keep every entity that is looked at in the player's room or on the      *)
(* straight tunnel through its centre, where no wall stands between the    *)
(* entity and the player, so a tile is in view exactly when it is within   *)
(* the radius.                                                             *)
(***************************************************************************)
is_in_fov(x, y, origin) ==
    /\ InGrid(x, y)
    /\ InGrid(origin[1], origin[2])
    /\ (x - origin[1]) * (x - origin[1]) + (y - origin[2]) * (y - origin[2])
          <= TORCH_RADIUS * TORCH_RADIUS

(***************************************************************************)
(* Items: closest_monster, the three effects, use_item, pick_item_up.      *)
(***************************************************************************)
\* The loop of closest_monster from index id on; closest_distance is kept
\* squared.
RECURSIVE closest_scan(_, _, _, _, _)
closest_scan(objs, origin, id, closest_enemy, closest_distance2) ==
    IF id >= Len(objs) THEN closest_enemy
    ELSE LET o == At(objs, id)
             d2 == distance2(At(objs, PLAYER), o)
         IN IF /\ id # PLAYER
               /\ is_some(o.fighter)
               /\ is_some(o.ai)
               /\ is_in_fov(o.x, o.y, origin)
               /\ d2 < closest_distance2
            THEN closest_scan(objs, origin, id + 1, Some(id), d2)
            ELSE closest_scan(objs, origin, id + 1, closest_enemy,
                              closest_distance2)

closest_monster(objs, max_range, origin) ==
    closest_scan(objs, origin, 0, None, (max_range + 1) * (max_range + 1))

\* Each effect returns [result, w].
Used(result, w) == [result |-> result, w |-> w]

cast_heal(w, origin) ==
    LET player == At(w.game_objects, PLAYER)
    IN IF is_some(player.fighter)
       THEN IF unwrap(player.fighter).hp = unwrap(player.fighter).max_hp
            THEN Used("Cancelled", add(w, <<"You are already at full health.">>))
            ELSE Used("UsedUp",
                      [add(w, <<"Your wounds start to feel better!">>) EXCEPT
                          !.game_objects = Set(@, PLAYER, heal(player, HEAL_AMOUNT))])
       ELSE Used("Cancelled", w)

cast_lightning(w, origin) ==
    LET monster_id == closest_monster(w.game_objects, LIGHTNING_RANGE, origin)
    IN IF is_some(monster_id)
       THEN Used("UsedUp",
                 take_damage(
                     add(w, <<"A lightning bolt strikes the {} and damaged it {} hit points!",
                              At(w.game_objects, unwrap(monster_id)).name,
                              LIGHTNING_DAMAGE>>),
                     unwrap(monster_id), LIGHTNING_DAMAGE))
       ELSE Used("Cancelled", add(w, <<"There is no enemy to strike.">>))

cast_confusion(w, origin) ==
    LET monster_id == closest_monster(w.game_objects, CONFUSION_RANGE, origin)
    IN IF is_some(monster_id)
       THEN LET monster == At(w.game_objects, unwrap(monster_id))
                old_ai == IF is_some(monster.ai) THEN unwrap(monster.ai) ELSE Basic
            IN Used("UsedUp",
                    add([w EXCEPT !.game_objects =
                            Set(@, unwrap(monster_id),
                                [monster EXCEPT !.ai =
                                    Some(Confused(old_ai, CONFUSE_TURN_COUNT))])],
                        <<"{} is confused !", monster.name>>))
       ELSE Used("Cancelled", add(w, <<"There is no enemy to strike.">>))

on_use(item, w, origin) ==
    CASE item = "Heal" -> cast_heal(w, origin)
      [] item = "ScrollOfLightning" -> cast_lightning(w, origin)
      [] item = "ScrollOfConfusion" -> cast_confusion(w, origin)

\* use_item taking the entry out with swap_remove.
use_item_swap_remove(w, inventory_id, origin) ==
    LET o == At(w.inventory, inventory_id)
    IN IF is_some(o.item)
       THEN LET r == on_use(unwrap(o.item), w, origin)
            IN IF r.result = "UsedUp"
               THEN [r.w EXCEPT !.inventory = swap_remove(@, inventory_id)]
               ELSE add(r.w, <<"Cancelled">>)
       ELSE add(w, <<"The {} cannot be used", o.name>>)

use_item(w, inventory_id, origin) ==
    LET o == At(w.inventory, inventory_id)
    IN IF is_some(o.item)
       THEN LET r == on_use(unwrap(o.item), w, origin)
            IN IF r.result = "UsedUp"
               THEN [r.w EXCEPT !.inventory = remove(@, inventory_id)]
               ELSE add(r.w, <<"Cancelled">>)
       ELSE add(w, <<"The {} cannot be used", o.name>>)

\* pick_item_up with the capacity test off by one.
pick_item_up_past_capacity(w, object_id) ==
    IF Len(w.inventory) > INVENTORY_CAPACITY
    THEN add(w, <<"Cannot pickup {}, inventory is full!",
                  At(w.game_objects, object_id).name>>)
    ELSE LET item == At(w.game_objects, object_id)
         IN [add(w, <<"You picked up {}", item.name>>) EXCEPT
                !.game_objects = swap_remove(@, object_id),
                !.inventory = Append(@, item)]

pick_item_up(w, object_id) ==
    IF Len(w.inventory) >= INVENTORY_CAPACITY
    THEN add(w, <<"Cannot pickup {}, inventory is full!",
                  At(w.game_objects, object_id).name>>)
    ELSE LET item == At(w.game_objects, object_id)
         IN [add(w, <<"You picked up {}", item.name>>) EXCEPT
                !.game_objects = swap_remove(@, object_id),
                !.inventory = Append(@, item)]

\* item_under_player without the test for an Item.
item_under_player_any_entity(objs) ==
    LET here(o) == pos(o) = pos(At(objs, PLAYER))
    IN position({i \in Ids(objs) : here(At(objs, i))})

\* handle_keys, "g": the item the player stands on, if any.
item_under_player(objs) ==
    LET here(o) == pos(o) = pos(At(objs, PLAYER)) /\ is_some(o.item)
    IN position({i \in Ids(objs) : here(At(objs, i))})

(***************************************************************************)
(* The player's move and the monsters' turns.                              *)
(***************************************************************************)
\* attack_target without the test of the position.
attack_target_any_fighter(objs, x, y) ==
    LET there(o) == is_some(o.fighter)
    IN position({i \in Ids(objs) : there(At(objs, i))})

\* player_move_or_attack: whom the player would hit at (x, y).
attack_target(objs, x, y) ==
    LET there(o) == is_some(o.fighter) /\ pos(o) = <<x, y>>
    IN position({i \in Ids(objs) : there(At(objs, i))})

player_move_or_attack(w, dx, dy, tiles) ==
    LET x == At(w.game_objects, PLAYER).x + dx
        y == At(w.game_objects, PLAYER).y + dy
        target_id == attack_target(w.game_objects, x, y)
    IN IF is_some(target_id)
       THEN IF mut_two(PLAYER, unwrap(target_id))
            THEN attack(w, PLAYER, unwrap(target_id))
            ELSE Panic(w, "assertion failed")
       ELSE move_game_object_by(w, PLAYER, dx, dy, tiles)

\* The test of the player's hp passing whatever the hp.
player_hp_any(objs) ==
    is_some(At(objs, PLAYER).fighter)

player_hp_positive(objs) ==
    is_some(At(objs, PLAYER).fighter) /\ unwrap(At(objs, PLAYER).fighter).hp > 0

\* ai_basic moving only when the distance is above 2.0.
ai_basic_attacks_at_two(w, monster_id, tiles, origin) ==
    LET monster == At(w.game_objects, monster_id)
        player == At(w.game_objects, PLAYER)
    IN IF is_in_fov(monster.x, monster.y, origin)
       THEN IF distance2(monster, player) > 4
            THEN move_game_object_toward(w, monster_id, player.x, player.y, tiles)
            ELSE IF player_hp_positive(w.game_objects)
            THEN IF mut_two(monster_id, PLAYER)
                 THEN attack(w, monster_id, PLAYER)
                 ELSE Panic(w, "assertion failed")
            ELSE w
       ELSE w

\* ai_basic returns Ai::Basic; the world it leaves is computed here.
ai_basic(w, monster_id, tiles, origin) ==
    LET monster == At(w.game_objects, monster_id)
        player == At(w.game_objects, PLAYER)
    IN IF is_in_fov(monster.x, monster.y, origin)
       THEN IF distance2(monster, player) >= 4
            THEN move_game_object_toward(w, monster_id, player.x, player.y, tiles)
            ELSE IF player_hp_positive(w.game_objects)
            THEN IF mut_two(monster_id, PLAYER)
                 THEN attack(w, monster_id, PLAYER)
                 ELSE Panic(w, "assertion failed")
            ELSE w
       ELSE w

\* ai_confused recovering as soon as num_turns is 0.
ai_confused_until_zero(w, monster_id, tiles, previous_ai, num_turns, dx, dy) ==
    IF num_turns > 0
    THEN [ai |-> Confused(previous_ai, num_turns - 1),
          w |-> move_game_object_by(w, monster_id, dx, dy, tiles)]
    ELSE [ai |-> previous_ai,
          w |-> add(w, <<"{} is no longer confused",
                         At(w.game_objects, monster_id).name>>)]

\* ai_confused: [ai, w], the Ai returned and the world left; (dx, dy) is
\* the pair of gen_range(-1, 2) draws.
ai_confused(w, monster_id, tiles, previous_ai, num_turns, dx, dy) ==
    IF num_turns >= 0
    THEN [ai |-> Confused(previous_ai, num_turns - 1),
          w |-> move_game_object_by(w, monster_id, dx, dy, tiles)]
    ELSE [ai |-> previous_ai,
          w |-> add(w, <<"{} is no longer confused",
                         At(w.game_objects, monster_id).name>>)]

\* ai_take_turn: the Ai is taken out, the turn runs, the new Ai is put back.
ai_take_turn(w, monster_id, tiles, origin, dx, dy) ==
    LET monster == At(w.game_objects, monster_id)
    IN IF is_some(monster.ai)
       THEN LET ai == unwrap(monster.ai)
                taken == [w EXCEPT !.game_objects =
                             Set(@, monster_id, [monster EXCEPT !.ai = None])]
                r == IF ai.tag = "Basic"
                     THEN [ai |-> Basic, w |-> ai_basic(taken, monster_id, tiles, origin)]
                     ELSE ai_confused(taken, monster_id, tiles, ai.previous_ai,
                                      ai.num_turns, dx, dy)
            IN IF r.w.panic # ""
               THEN r.w
               ELSE [r.w EXCEPT !.game_objects =
                        Set(@, monster_id,
                            [At(r.w.game_objects, monster_id) EXCEPT !.ai = Some(r.ai)])]
       ELSE w

\* The draws a turn of this Ai makes: a Basic turn makes none.
Draws(objs, id) ==
    IF is_some(At(objs, id).ai) /\ unwrap(At(objs, id).ai).tag = "Confused"
    THEN (-1 .. 1) \X (-1 .. 1)
    ELSE {<<0, 0>>}

(***************************************************************************)
(* handle_keys.  key is tcod.key as render_all read it; selected is an     *)
(* outcome of inventory_menu, used when the key opens the inventory.       *)
(***************************************************************************)
Arrows == {"Up", "Down", "Left", "Right"}

delta(key) ==
    CASE key = "Up" -> <<0, -1>>
      [] key = "Down" -> <<0, 1>>
      [] key = "Left" -> <<-1, 0>>
      [] key = "Right" -> <<1, 0>>

\* What a menu gives back: an index or None, or the panic that ended it.
Selected(index) == [index |-> index, panic |-> ""]
Panicked(what) == [index |-> None, panic |-> what]

\* The key wait_for_keypress returns in a menu: a digit, or NoDigit for
\* any other key.
NoDigit == -1
MenuKeys == {NoDigit} \cup (0 .. 9)

\* menu: the set of its outcomes on n options and the key read.  The index
\* is digit - 1 in u32: for the digit 0 a build with overflow checks
\* panics, and a build without them wraps to u32::MAX, which is the index
\* of no option.
menu(n, key) ==
    IF n > 9
    THEN {Panicked("Cannot have a menu with more than 9 options.")}
    ELSE IF key = NoDigit THEN {Selected(None)}
    ELSE IF key = 0
    THEN {Panicked("attempt to subtract with overflow"), Selected(None)}
    ELSE IF key - 1 < n THEN {Selected(Some(key - 1))}
    ELSE {Selected(None)}

\* inventory_menu: an empty inventory shows one line, "Inventory is
\* empty.", and gives None whatever menu returned.
inventory_menu(inv, key) ==
    {IF r.panic = "" /\ Len(inv) = 0 THEN Selected(None) ELSE r :
        r \in menu(IF Len(inv) = 0 THEN 1 ELSE Len(inv), key)}

Handled(action, w) == [action |-> action, w |-> w]

\* handle_keys with "g" returning TookTurn.
handle_keys_pickup_takes_turn(w, key, selected, tiles, origin) ==
    LET player_alive == At(w.game_objects, PLAYER).is_alive
    IN CASE key \in Arrows /\ player_alive ->
              Handled("TookTurn",
                      player_move_or_attack(w, delta(key)[1], delta(key)[2], tiles))
         [] key = "g" /\ player_alive ->
              LET item_id == item_under_player(w.game_objects)
              IN Handled("TookTurn",
                         IF is_some(item_id)
                         THEN pick_item_up(w, unwrap(item_id))
                         ELSE w)
         [] key = "i" /\ player_alive ->
              Handled("DidntTakeTurn",
                      IF selected.panic # ""
                      THEN Panic(w, selected.panic)
                      ELSE IF is_some(selected.index)
                      THEN use_item(w, unwrap(selected.index), origin)
                      ELSE w)
         [] key = "Escape" -> Handled("Exit", w)
         [] OTHER -> Handled("DidntTakeTurn", w)

handle_keys(w, key, selected, tiles, origin) ==
    LET player_alive == At(w.game_objects, PLAYER).is_alive
    IN CASE key \in Arrows /\ player_alive ->
              Handled("TookTurn",
                      player_move_or_attack(w, delta(key)[1], delta(key)[2], tiles))
         [] key = "g" /\ player_alive ->
              LET item_id == item_under_player(w.game_objects)
              IN Handled("DidntTakeTurn",
                         IF is_some(item_id)
                         THEN pick_item_up(w, unwrap(item_id))
                         ELSE w)
         [] key = "i" /\ player_alive ->
              Handled("DidntTakeTurn",
                      IF selected.panic # ""
                      THEN Panic(w, selected.panic)
                      ELSE IF is_some(selected.index)
                      THEN use_item(w, unwrap(selected.index), origin)
                      ELSE w)
         [] key = "Escape" -> Handled("Exit", w)
         [] OTHER -> Handled("DidntTakeTurn", w)

(***************************************************************************)
(* The main loop: one iteration reads a key (render_all computes the field *)
(* of view at the player's position first), handles it, and runs the AI    *)
(* phase when the player is alive and took a turn.  AiTurn is one          *)
(* ai_take_turn of the phase; the loop's ids that hold no Ai are passed    *)
(* over within the step that reaches them.                                 *)
(***************************************************************************)
\* next_ai going through the ids from the last to the first.
next_ai_descending(objs, from) ==
    LET has_ai(o) == is_some(o.ai)
        hits == {i \in Ids(objs) : i >= from /\ has_ai(At(objs, i))}
    IN IF hits = {} THEN None
       ELSE Some(CHOOSE i \in hits : \A j \in hits : i >= j)

\* The least id >= from whose entity has an Ai.
next_ai(objs, from) ==
    LET has_ai(o) == is_some(o.ai)
        hits == {i \in Ids(objs) : i >= from /\ has_ai(At(objs, i))}
    IN IF hits = {} THEN None
       ELSE Some(CHOOSE i \in hits : \A j \in hits : i <= j)

\* main, lines 1068-1078: what follows handle_keys.
AfterKeys(action, w) ==
    IF w.panic # "" THEN w.panic
    ELSE IF action = "Exit" THEN "exit"
    ELSE IF /\ At(w.game_objects, PLAYER).is_alive
            /\ action # "DidntTakeTurn"
            /\ is_some(next_ai(w.game_objects, 0))
    THEN "ai"
    ELSE "input"

Input(key, selected) ==
    /\ pc = "input"
    /\ keys_left # 0
    /\ keys_left' = IF keys_left > 0 THEN keys_left - 1 ELSE keys_left
    /\ LET origin == pos(At(game_objects, PLAYER))
           r == handle_keys(World(game_objects, inventory, <<>>), key, selected,
                            map, origin)
           then == AfterKeys(r.action, r.w)
       IN /\ previous_player_position' = origin
          /\ player_action' = r.action
          /\ game_objects' = r.w.game_objects
          /\ inventory' = r.w.inventory
          /\ messages' = r.w.messages
          /\ pc' = then
          /\ ai_id' = IF then = "ai"
                      THEN unwrap(next_ai(r.w.game_objects, 0))
                      ELSE 0
    /\ UNCHANGED <<map, calls, rooms, rooms_tried>>

KeyArrow == \E key \in Arrows : Input(key, Selected(None))

KeyG == Input("g", Selected(None))

\* selected is an outcome of the menu on one of the keys it may read.
KeyI ==
    \E selected \in UNION {inventory_menu(inventory, menu_key) :
                               menu_key \in MenuKeys} :
        Input("i", selected)

KeyAltEnter == Input("AltEnter", Selected(None))

KeyEscape == Input("Escape", Selected(None))

KeyOther == Input("Other", Selected(None))

AiTurn ==
    /\ pc = "ai"
    /\ \E d \in Draws(game_objects, ai_id) :
          LET w == ai_take_turn(World(game_objects, inventory, messages), ai_id,
                                map, previous_player_position, d[1], d[2])
              next == next_ai(w.game_objects, ai_id + 1)
          IN /\ game_objects' = w.game_objects
             /\ inventory' = w.inventory
             /\ messages' = w.messages
             /\ pc' = IF w.panic # "" THEN w.panic
                      ELSE IF is_some(next) THEN "ai" ELSE "input"
             /\ ai_id' = IF w.panic = "" /\ is_some(next) THEN unwrap(next) ELSE 0
    /\ UNCHANGED <<map, previous_player_position, player_action, keys_left, calls,
                   rooms, rooms_tried>>

Next ==
    \/ KeyArrow
    \/ KeyG
    \/ KeyI
    \/ KeyAltEnter
    \/ KeyEscape
    \/ KeyOther
    \/ AiTurn

(***************************************************************************)
(* Levels: what make_map can return.  A level is one accepted room         *)
(* (Rectangle::new(x, y, w, h), interior carved by make_room), the player  *)
(* at its centre and the entities place_game_objects pushed.               *)
(***************************************************************************)
Rectangle_new(x, y, w, h) == [x1 |-> x, y1 |-> y, x2 |-> x + w, y2 |-> y + h]

center(room) == <<(room.x1 + room.x2) \div 2, (room.y1 + room.y2) \div 2>>

\* make_room carving the walls of the room too.
make_room_with_walls(room) ==
    {<<x, y>> : x \in room.x1 .. room.x2, y \in room.y1 .. room.y2}

make_room(room) ==
    {<<x, y>> : x \in (room.x1 + 1) .. (room.x2 - 1),
                y \in (room.y1 + 1) .. (room.y2 - 1)}

Room == Rectangle_new(20, 10, ROOM_MIN_SIZE, ROOM_MIN_SIZE)

\* tiles: the map returned; room: the first room accepted; placed: the
\* entities pushed after the player, in the order pushed; keys: the keys
\* the run reads (-1: any number).
InitLevel(tiles, room, placed, keys) ==
    /\ game_objects = <<NewPlayer(center(room)[1], center(room)[2])>> \o placed
    /\ inventory = <<>>
    /\ messages = <<<<"Welcome adventurer! Prepare to perish in the tomb of the Ancient King !">>>>
    /\ map = tiles
    /\ previous_player_position = <<-1, -1>>
    /\ player_action = "None"
    /\ pc = "input"
    /\ ai_id = 0
    /\ keys_left = keys
    /\ calls = <<>>
    /\ rooms = <<>>
    /\ rooms_tried = 0

\* One room with a troll and a healing potion.
Init ==
    InitLevel(make_room(Room), Room, <<NewTroll(24, 14), NewPotion(23, 12)>>, -1)

Spec == Init /\ [][Next]_vars

\* One room with an orc and a troll next to the player and a scroll of
\* confusion on the player's tile; the run reads MaxKeys keys.
MaxKeys == 4

InitPair ==
    InitLevel(make_room(Room), Room,
              <<NewOrc(23, 12), NewTroll(21, 12),
                NewConfusionScroll(center(Room)[1], center(Room)[2])>>,
              MaxKeys)

SpecPair == InitPair /\ [][Next]_vars

\* One room with an orc next to the player and two scrolls of confusion on
\* the player's tile; the run reads MaxScrollKeys keys.
MaxScrollKeys == 4

InitScrolls ==
    InitLevel(make_room(Room), Room,
              <<NewOrc(23, 12),
                NewConfusionScroll(center(Room)[1], center(Room)[2]),
                NewConfusionScroll(center(Room)[1], center(Room)[2])>>,
              MaxScrollKeys)

SpecScrolls == InitScrolls /\ [][Next]_vars

(***************************************************************************)
(* A level of four rooms in a row, each joined to the one before by a      *)
(* horizontal tunnel between the centres (the vertical leg is one tile, a  *)
(* centre), with no monster and ten healing potions: three on the centre   *)
(* of each of the first three rooms and one on the centre of the fourth.   *)
(***************************************************************************)
make_horizontal_tunnel(x1, x2, y) ==
    {<<x, y>> : x \in (IF x1 < x2 THEN x1 ELSE x2) .. (IF x1 < x2 THEN x2 ELSE x1)}

make_vertical_tunnel(y1, y2, x) ==
    {<<x, y>> : y \in (IF y1 < y2 THEN y1 ELSE y2) .. (IF y1 < y2 THEN y2 ELSE y1)}

RoomA == Rectangle_new(2, 10, ROOM_MIN_SIZE, ROOM_MIN_SIZE)
RoomB == Rectangle_new(8, 10, ROOM_MIN_SIZE, ROOM_MIN_SIZE)
RoomC == Rectangle_new(14, 10, ROOM_MIN_SIZE, ROOM_MIN_SIZE)
RoomD == Rectangle_new(20, 10, ROOM_MIN_SIZE, ROOM_MIN_SIZE)

PotionsAt(c, n) == [i \in 1 .. n |-> NewPotion(c[1], c[2])]

FourRooms ==
    make_room(RoomA) \cup make_room(RoomB) \cup make_room(RoomC)
       \cup make_room(RoomD) \cup make_horizontal_tunnel(4, 22, 12)

\* The level as make_map returns it.
PotionLevel ==
    <<NewPlayer(center(RoomA)[1], center(RoomA)[2])>>
       \o PotionsAt(center(RoomA), 3) \o PotionsAt(center(RoomB), 3)
       \o PotionsAt(center(RoomC), 3) \o PotionsAt(center(RoomD), 1)

\* The keys that take the player through the first two rooms, picking up
\* what lies on their centres.
StockingKeys ==
    <<"g", "g", "g", "Right", "Right", "Right", "Right", "Right", "Right",
      "g", "g", "g">>

\* The iterations of the main loop on the keys, none of which opens a
\* menu (no monster: no AI phase).  The loop ends on Exit or on a panic,
\* and the keys behind are not read.
RECURSIVE Replay(_, _, _)
Replay(w, keys, tiles) ==
    IF keys = <<>> THEN w
    ELSE LET r == handle_keys([w EXCEPT !.messages = <<>>], Head(keys),
                              Selected(None), tiles,
                              pos(At(w.game_objects, PLAYER)))
         IN IF r.action = "Exit" \/ r.w.panic # ""
            THEN r.w
            ELSE Replay(r.w, Tail(keys), tiles)

Stocked == Replay(World(PotionLevel, <<>>, <<>>), StockingKeys, FourRooms)

InitStocked ==
    /\ game_objects = Stocked.game_objects
    /\ inventory = Stocked.inventory
    /\ messages = Stocked.messages
    /\ map = FourRooms
    /\ previous_player_position = pos(At(Stocked.game_objects, PLAYER))
    /\ player_action = "DidntTakeTurn"
    /\ pc = "input"
    /\ ai_id = 0
    /\ keys_left = -1
    /\ calls = <<>>
    /\ rooms = <<>>
    /\ rooms_tried = 0

NextKeys ==
    \/ KeyArrow
    \/ KeyG
    \/ KeyI
    \/ KeyAltEnter
    \/ KeyEscape
    \/ KeyOther

SpecStocked == InitStocked /\ [][NextKeys]_vars

(***************************************************************************)
(* The game late in a fight the player is losing: one room, an orc and a   *)
(* troll at the player's sides and a healing potion north of the player,   *)
(* and the player has walked north, onto the potion and then into the      *)
(* wall, for WallTurns turns while both monsters struck.                   *)
(* The level is what the iterations of the main loop make of it: each key  *)
(* is handled and is followed by the AI phase.                             *)
(***************************************************************************)
WallTurns == 7

\* The AI phase of one iteration, from id on (no Ai here is Confused: no
\* draw); a panic ends it.
RECURSIVE ai_phase(_, _, _, _)
ai_phase(w, id, tiles, origin) ==
    IF id >= Len(w.game_objects) \/ w.panic # "" THEN w
    ELSE ai_phase(IF is_some(At(w.game_objects, id).ai)
                  THEN ai_take_turn(w, id, tiles, origin, 0, 0)
                  ELSE w,
                  id + 1, tiles, origin)

\* The iterations of the main loop on the keys, none of which opens a
\* menu.  The loop ends on Exit, before the AI phase, or on a panic, and
\* the keys behind are not read.
RECURSIVE ReplayTurns(_, _, _)
ReplayTurns(w, keys, tiles) ==
    IF keys = <<>> THEN w
    ELSE LET origin == pos(At(w.game_objects, PLAYER))
             r == handle_keys([w EXCEPT !.messages = <<>>], Head(keys),
                              Selected(None), tiles, origin)
             after == IF /\ At(r.w.game_objects, PLAYER).is_alive
                         /\ r.action # "DidntTakeTurn"
                      THEN ai_phase(r.w, 0, tiles, origin)
                      ELSE r.w
         IN IF r.action = "Exit" \/ r.w.panic # "" THEN r.w
            ELSE IF after.panic # "" THEN after
            ELSE ReplayTurns(after, Tail(keys), tiles)

Cornered ==
    ReplayTurns(World(<<NewPlayer(center(Room)[1], center(Room)[2]),
                        NewOrc(23, 12), NewTroll(21, 12), NewPotion(22, 11)>>,
                      <<>>, <<>>),
                [i \in 1 .. WallTurns |-> "Up"], make_room(Room))

InitCornered ==
    /\ game_objects = Cornered.game_objects
    /\ inventory = Cornered.inventory
    /\ messages = Cornered.messages
    /\ map = make_room(Room)
    /\ previous_player_position = pos(At(Cornered.game_objects, PLAYER))
    /\ player_action = "TookTurn"
    /\ pc = "input"
    /\ ai_id = 0
    /\ keys_left = -1
    /\ calls = <<>>
    /\ rooms = <<>>
    /\ rooms_tried = 0

SpecCornered == InitCornered /\ [][Next]_vars

(***************************************************************************)
(* make_map.  MakeMapStep is one iteration of its loop: a room is drawn,   *)
(* and if it intersects no accepted room it is carved, filled by           *)
(* place_game_objects, joined to the room accepted before it (or given the *)
(* player, if it is the first) and pushed on rooms.  calls records, for    *)
(* each room accepted, the room and the order of the tunnel's legs.        *)
(***************************************************************************)
\* is_intersecting with strict comparisons.
is_intersecting_strictly(self, other) ==
    /\ self.x1 < other.x2
    /\ self.x2 > other.x1
    /\ self.y1 < other.y2
    /\ self.y2 > other.y1

is_intersecting(self, other) ==
    /\ self.x1 <= other.x2
    /\ self.x2 >= other.x1
    /\ self.y1 <= other.y2
    /\ self.y2 >= other.y1

\* What place_game_objects builds for a draw [x, y, kind].
NewPlaced(draw) ==
    CASE draw.kind = "orc" -> NewOrc(draw.x, draw.y)
      [] draw.kind = "troll" -> NewTroll(draw.x, draw.y)
      [] draw.kind = "Heal" -> NewPotion(draw.x, draw.y)
      [] draw.kind = "ScrollOfLightning" -> NewLightningScroll(draw.x, draw.y)
      [] draw.kind = "ScrollOfConfusion" -> NewConfusionScroll(draw.x, draw.y)

\* One loop of place_game_objects: each draw is pushed unless its tile is
\* blocked.
RECURSIVE push_unblocked(_, _, _)
push_unblocked(objs, draws, tiles) ==
    IF draws = <<>> THEN objs
    ELSE push_unblocked(
             IF ~is_blocked(Head(draws).x, Head(draws).y, tiles, objs)
             THEN Append(objs, NewPlaced(Head(draws)))
             ELSE objs,
             Tail(draws), tiles)

\* monsters and items are the draws of the two loops, in order.
place_game_objects(tiles, objs, monsters, items) ==
    push_unblocked(push_unblocked(objs, monsters, tiles), items, tiles)

set_position(o, x, y) == [o EXCEPT !.x = x, !.y = y]

\* tunnel with both legs drawn from the centre prev.
tunnel_from_prev(prev, new, horizontal_first) ==
    make_horizontal_tunnel(prev[1], new[1], prev[2])
        \cup make_vertical_tunnel(prev[2], new[2], prev[1])

\* The two legs between the centres prev and new, in the order of the coin.
tunnel(prev, new, horizontal_first) ==
    IF horizontal_first
    THEN make_horizontal_tunnel(prev[1], new[1], prev[2])
            \cup make_vertical_tunnel(prev[2], new[2], new[1])
    ELSE make_vertical_tunnel(prev[2], new[2], prev[1])
            \cup make_horizontal_tunnel(prev[1], new[1], new[2])

MaxTries == 3

\* One iteration of the loop of make_map.
make_map_iteration(new_room, horizontal_first, monsters, items) ==
    /\ pc = "make_map"
    /\ rooms_tried < MAX_ROOMS
    /\ rooms_tried' = rooms_tried + 1
    /\ LET failed == \E i \in 1 .. Len(rooms) : is_intersecting(new_room, rooms[i])
           carved == map \cup make_room(new_room)
           placed == place_game_objects(carved, game_objects, monsters, items)
           new == center(new_room)
       IN IF failed
          THEN UNCHANGED <<map, game_objects, rooms, calls>>
          ELSE /\ rooms' = Append(rooms, new_room)
               /\ IF rooms = <<>>
                  THEN /\ map' = carved
                       /\ game_objects' =
                             Set(placed, PLAYER,
                                 set_position(At(placed, PLAYER), new[1], new[2]))
                       /\ calls' = Append(calls, [fn |-> "make_room",
                                                  room |-> new_room,
                                                  tunnel |-> "none"])
                  ELSE /\ map' = carved \cup tunnel(center(rooms[Len(rooms)]), new,
                                                    horizontal_first)
                       /\ game_objects' = placed
                       /\ calls' = Append(calls, [fn |-> "make_room",
                                                  room |-> new_room,
                                                  tunnel |-> IF horizontal_first
                                                             THEN "horizontal, vertical"
                                                             ELSE "vertical, horizontal"])
    /\ UNCHANGED <<inventory, messages, previous_player_position, player_action,
                   pc, ai_id, keys_left>>

\* The iterations that are followed: the first MaxTries.
MakeMapStep(new_room, horizontal_first, monsters, items) ==
    /\ rooms_tried < MaxTries
    /\ make_map_iteration(new_room, horizontal_first, monsters, items)

\* The rooms drawn: in the corner of the grid, of the two least sizes, so
\* that two of them overlap, touch, or lie apart.
RoomDraws ==
    {Rectangle_new(x, y, w, ROOM_MIN_SIZE) :
        x \in {0, 5, 6}, y \in {0, 5, 6}, w \in {ROOM_MIN_SIZE, ROOM_MIN_SIZE + 1}}

\* The draws of place_game_objects: none; an orc on the centre of the room
\* and a potion in the room's first corner; an orc and then a potion both
\* on the centre (the potion's tile is then blocked).
PlacementDraws(room) ==
    LET orc == [x |-> center(room)[1], y |-> center(room)[2], kind |-> "orc"]
    IN {[monsters |-> <<>>, items |-> <<>>],
        [monsters |-> <<orc>>,
         items |-> <<[x |-> room.x1 + 1, y |-> room.y1 + 1, kind |-> "Heal"]>>],
        [monsters |-> <<orc>>,
         items |-> <<[x |-> orc.x, y |-> orc.y, kind |-> "Heal"]>>]}

\* A room that is rejected, and the first room, make no draw of the coin,
\* and a room that is rejected makes no draw of place_game_objects.
MakeMap ==
    \E new_room \in RoomDraws :
        IF \E i \in 1 .. Len(rooms) : is_intersecting(new_room, rooms[i])
        THEN MakeMapStep(new_room, TRUE, <<>>, <<>>)
        ELSE \E horizontal_first \in (IF rooms = <<>> THEN {TRUE} ELSE BOOLEAN) :
             \E placement \in PlacementDraws(new_room) :
                MakeMapStep(new_room, horizontal_first, placement.monsters,
                            placement.items)

\* main, before make_map is called: the player alone, every tile a wall.
InitMap ==
    /\ game_objects = <<NewPlayer(25, 23)>>
    /\ inventory = <<>>
    /\ messages = <<>>
    /\ map = {}
    /\ previous_player_position = <<-1, -1>>
    /\ player_action = "None"
    /\ pc = "make_map"
    /\ ai_id = 0
    /\ keys_left = 0
    /\ calls = <<>>
    /\ rooms = <<>>
    /\ rooms_tried = 0

SpecMap == InitMap /\ [][MakeMap]_vars

(***************************************************************************)
(* make_map through all its MAX_ROOMS iterations.  The rooms drawn lie in  *)
(* two rows of slots, slot k below and to the right of slot k - 1 or above *)
(* and to the right of it, so that no two slots intersect and each         *)
(* corridor has two legs; iteration k draws slot k, or the first slot      *)
(* again (rejected once a room stands there).  No monster and no item is   *)
(* drawn.                                                                  *)
(***************************************************************************)
Slot(k) ==
    Rectangle_new((ROOM_MIN_SIZE + 1) * k,
                  IF k % 2 = 0 THEN 0 ELSE ROOM_MIN_SIZE + 1,
                  ROOM_MIN_SIZE, ROOM_MIN_SIZE)

MakeMapSlots ==
    \E new_room \in {Slot(rooms_tried), Slot(0)} :
        IF \E i \in 1 .. Len(rooms) : is_intersecting(new_room, rooms[i])
        THEN make_map_iteration(new_room, TRUE, <<>>, <<>>)
        ELSE \E horizontal_first \in (IF rooms = <<>> THEN {TRUE} ELSE BOOLEAN) :
                make_map_iteration(new_room, horizontal_first, <<>>, <<>>)

SpecSlots == InitMap /\ [][MakeMapSlots]_vars

(***************************************************************************)
(* make_map and then the game on the map it returned, at the edges of the  *)
(* grid.  The rooms drawn are the least and the greatest draws of          *)
(* gen_range(0, MAP_WIDTH - w) and gen_range(0, MAP_HEIGHT - h) for a room *)
(* of the least size: the room in the first corner of the grid and the     *)
(* room in the last.  A room holds nothing, or an orc in the corner of the *)
(* room that is nearest to the edge of the grid and a scroll of confusion  *)
(* on the room's centre.                                                   *)
(***************************************************************************)
MaxCornerKeys == 4

\* Room draws reaching one tile further than gen_range allows.
CornerRooms_to_the_edge ==
    {Rectangle_new(0, 0, ROOM_MIN_SIZE, ROOM_MIN_SIZE),
     Rectangle_new(MAP_WIDTH - ROOM_MIN_SIZE, MAP_HEIGHT - ROOM_MIN_SIZE,
                   ROOM_MIN_SIZE, ROOM_MIN_SIZE)}

CornerRooms ==
    {Rectangle_new(0, 0, ROOM_MIN_SIZE, ROOM_MIN_SIZE),
     Rectangle_new(MAP_WIDTH - ROOM_MIN_SIZE - 1, MAP_HEIGHT - ROOM_MIN_SIZE - 1,
                   ROOM_MIN_SIZE, ROOM_MIN_SIZE)}

CornerPlacements(room) ==
    LET scroll == [x |-> center(room)[1], y |-> center(room)[2],
                   kind |-> "ScrollOfConfusion"]
    IN {[monsters |-> <<>>, items |-> <<>>],
        [monsters |-> <<[x |-> IF room.x1 = 0 THEN room.x1 + 1 ELSE room.x2 - 1,
                         y |-> IF room.y1 = 0 THEN room.y1 + 1 ELSE room.y2 - 1,
                         kind |-> "orc"]>>,
         items |-> <<scroll>>]}

MakeMapCorners ==
    \E new_room \in CornerRooms :
        IF \E i \in 1 .. Len(rooms) : is_intersecting(new_room, rooms[i])
        THEN MakeMapStep(new_room, TRUE, <<>>, <<>>)
        ELSE \E horizontal_first \in (IF rooms = <<>> THEN {TRUE} ELSE BOOLEAN) :
             \E placement \in CornerPlacements(new_room) :
                MakeMapStep(new_room, horizontal_first, placement.monsters,
                            placement.items)

\* make_map returns and main enters its loop: every room of the tries that
\* are left is rejected (the room drawn is one drawn before), so the map
\* and the entities are those of this state.
MakeMapReturns ==
    /\ pc = "make_map"
    /\ rooms # <<>>
    /\ pc' = "input"
    /\ messages' = <<<<"Welcome adventurer! Prepare to perish in the tomb of the Ancient King !">>>>
    /\ keys_left' = MaxCornerKeys
    /\ calls' = <<>>
    /\ rooms' = <<>>
    /\ rooms_tried' = 0
    /\ UNCHANGED <<game_objects, inventory, map, previous_player_position,
                   player_action, ai_id>>

NextCorners ==
    \/ MakeMapCorners
    \/ MakeMapReturns
    \/ Next

SpecCorners == InitMap /\ [][NextCorners]_vars

(***************************************************************************)
(* Function-level specifications: a function of the program is called      *)
(* directly on worlds drawn from small sets, and calls records the calls.  *)
(* The field of view is the one render_all computed at the player's        *)
(* position.                                                               *)
(***************************************************************************)
InitCalls(tiles, objs) ==
    /\ game_objects = objs
    /\ inventory = <<>>
    /\ messages = <<>>
    /\ map = tiles
    /\ previous_player_position = pos(At(objs, PLAYER))
    /\ player_action = "None"
    /\ pc = "call"
    /\ ai_id = 0
    /\ keys_left = 0
    /\ calls = <<>>
    /\ rooms = <<>>
    /\ rooms_tried = 0

\* What a direct call leaves: the world w and the record of calls log.
Called(w, log) ==
    /\ game_objects' = w.game_objects
    /\ inventory' = w.inventory
    /\ messages' = w.messages
    /\ pc' = IF w.panic # "" THEN w.panic ELSE "call"
    /\ calls' = log
    /\ UNCHANGED <<map, previous_player_position, player_action, ai_id, keys_left,
                   rooms, rooms_tried>>

Here == World(game_objects, inventory, messages)

(***************************************************************************)
(* take_damage called on the player, an orc and a troll.                   *)
(***************************************************************************)
MaxDamageCalls == 3

\* The amounts attack and cast_lightning pass, and two that are not positive.
Damages == {-1, 0, 1, 2, 4, 5, LIGHTNING_DAMAGE}

InitDamage ==
    InitCalls(make_room(Room),
              <<NewPlayer(22, 12), NewOrc(23, 12), NewTroll(21, 13)>>)

TakeDamage ==
    /\ pc = "call"
    /\ Len(calls) < MaxDamageCalls
    /\ \E id \in Ids(game_objects), damage \in Damages :
          Called(take_damage(Here, id, damage),
                 Append(calls, [fn |-> "take_damage", id |-> id, damage |-> damage]))

SpecDamage == InitDamage /\ [][TakeDamage]_vars

(***************************************************************************)
(* attack called with any two different entities (mut_two hands attack two *)
(* different ones) among the player, an orc, a troll and a potion, which   *)
(* has no Fighter.  Each call recorded keeps the entities as it found      *)
(* them; messages holds what the last call added.                          *)
(***************************************************************************)
MaxAttacks == 3

InitAttack ==
    InitCalls(make_room(Room),
              <<NewPlayer(22, 12), NewOrc(23, 12), NewTroll(21, 13),
                NewPotion(22, 12)>>)

Attack ==
    /\ pc = "call"
    /\ Len(calls) < MaxAttacks
    /\ \E attacker_id \in Ids(game_objects), target_id \in Ids(game_objects) :
          /\ mut_two(attacker_id, target_id)
          /\ Called(attack(World(game_objects, inventory, <<>>), attacker_id, target_id),
                    Append(calls, [fn |-> "attack", attacker_id |-> attacker_id,
                                   target_id |-> target_id,
                                   game_objects |-> game_objects]))

SpecAttack == InitAttack /\ [][Attack]_vars

(***************************************************************************)
(* cast_heal called on a living player with any hp up to max_hp (an orc    *)
(* stands by).  Each call recorded keeps the result and the player's hp as *)
(* the call found it.                                                      *)
(***************************************************************************)
MaxHeals == 3

InitHeal ==
    \E hp \in 1 .. 30 :
        InitCalls(make_room(Room),
                  <<[NewPlayer(22, 12) EXCEPT
                        !.fighter = Some(Fighter(30, hp, 2, 5, "Player"))],
                    NewOrc(23, 12)>>)

CastHeal ==
    /\ pc = "call"
    /\ Len(calls) < MaxHeals
    /\ LET r == cast_heal(World(game_objects, inventory, <<>>),
                          previous_player_position)
       IN Called(r.w,
                 Append(calls, [fn |-> "cast_heal", result |-> r.result,
                                hp |-> unwrap(At(game_objects, PLAYER).fighter).hp,
                                game_objects |-> game_objects]))

SpecHeal == InitHeal /\ [][CastHeal]_vars

(***************************************************************************)
(* closest_monster called with the two ranges the program passes, in a     *)
(* room of 9 x 4 tiles with the player in its first column or its centre   *)
(* and two monsters anywhere else.                                         *)
(***************************************************************************)
WideRoom == Rectangle_new(20, 10, ROOM_MAX_SIZE, ROOM_MIN_SIZE)

InitClosest ==
    \E p \in {<<21, 11>>, center(WideRoom)} :
    \E m1 \in make_room(WideRoom) \ {p} :
    \E m2 \in make_room(WideRoom) \ {p, m1} :
        InitCalls(make_room(WideRoom),
                  <<NewPlayer(p[1], p[2]), NewOrc(m1[1], m1[2]),
                    NewTroll(m2[1], m2[2])>>)

ClosestMonster ==
    /\ pc = "call"
    /\ calls = <<>>
    /\ \E max_range \in {LIGHTNING_RANGE, CONFUSION_RANGE} :
          Called(Here,
                 <<[fn |-> "closest_monster", max_range |-> max_range,
                    result |-> closest_monster(game_objects, max_range,
                                               previous_player_position)]>>)

SpecClosest == InitClosest /\ [][ClosestMonster]_vars

(***************************************************************************)
(* use_item called on an entry of an inventory that holds a scroll of      *)
(* lightning bolt alone or one item of each kind in any order, in the room *)
(* of 9 x 4 tiles with the player (unhurt or hurt) in its first column or  *)
(* its centre, an orc anywhere else, and a potion and the remains of a     *)
(* troll near the first column.  Each call recorded keeps the entities and *)
(* the inventory as it found them; messages holds what the last call       *)
(* added.                                                                  *)
(***************************************************************************)
MaxUses == 2

Inventories(x, y) ==
    LET h == NewPotion(x, y)
        l == NewLightningScroll(x, y)
        c == NewConfusionScroll(x, y)
    IN {<<l>>, <<h, l, c>>, <<h, c, l>>, <<l, h, c>>, <<l, c, h>>, <<c, h, l>>,
        <<c, l, h>>}

InitUse ==
    \E p \in {<<21, 11>>, center(WideRoom)} :
    \E m \in make_room(WideRoom) \ {p} :
    \E hp \in {20, 30} :
        /\ game_objects =
              <<[NewPlayer(p[1], p[2]) EXCEPT
                    !.fighter = Some(Fighter(30, hp, 2, 5, "Player"))],
                NewOrc(m[1], m[2]),
                monster_death(World(<<NewTroll(22, 11)>>, <<>>, <<>>),
                              0).game_objects[1],
                NewPotion(22, 12)>>
        /\ inventory \in Inventories(p[1], p[2])
        /\ messages = <<>>
        /\ map = make_room(WideRoom)
        /\ previous_player_position = p
        /\ player_action = "None"
        /\ pc = "call"
        /\ ai_id = 0
        /\ keys_left = 0
        /\ calls = <<>>
        /\ rooms = <<>>
        /\ rooms_tried = 0

UseItem ==
    /\ pc = "call"
    /\ Len(calls) < MaxUses
    /\ \E inventory_id \in Ids(inventory) :
          Called(use_item(World(game_objects, inventory, <<>>), inventory_id,
                          previous_player_position),
                 Append(calls, [fn |-> "use_item", inventory_id |-> inventory_id,
                                game_objects |-> game_objects,
                                inventory |-> inventory]))

SpecUse == InitUse /\ [][UseItem]_vars

(***************************************************************************)
(* cast_confusion, then ai_take_turn on the monster it confused.  The      *)
(* monster's Ai before the cast is Basic or a Confused that has some turns *)
(* left.                                                                   *)
(***************************************************************************)
MaxTurns == 13

InitConfusion ==
    \E m \in make_room(Room) \ {center(Room)} :
    \E ai \in {Basic, Confused(Basic, 1)} :
        InitCalls(make_room(Room),
                  <<NewPlayer(center(Room)[1], center(Room)[2]),
                    [NewOrc(m[1], m[2]) EXCEPT !.ai = Some(ai)]>>)

CastConfusion ==
    /\ pc = "call"
    /\ calls = <<>>
    /\ LET r == cast_confusion(Here, previous_player_position)
       IN Called(r.w,
                 <<[fn |-> "cast_confusion", result |-> r.result,
                    old_ai |-> At(game_objects, 1).ai]>>)

AiTakeTurn ==
    /\ pc = "call"
    /\ calls # <<>>
    /\ Len(calls) <= MaxTurns
    /\ \E d \in Draws(game_objects, 1) :
          Called(ai_take_turn(Here, 1, map, previous_player_position, d[1], d[2]),
                 Append(calls, [fn |-> "ai_take_turn", monster_id |-> 1]))

NextConfusion ==
    \/ CastConfusion
    \/ AiTakeTurn

SpecConfusion == InitConfusion /\ [][NextConfusion]_vars

(***************************************************************************)
(* ai_take_turn called again and again on a troll whose Ai is Basic, in    *)
(* the level of four rooms: the player (unhurt or nearly dead) is on the   *)
(* centre of the first room and the troll starts anywhere else in that     *)
(* room or on the row of the tunnel, in view or out of it.  The call       *)
(* recorded keeps the entities as it found them; messages holds what it    *)
(* added.                                                                  *)
(***************************************************************************)
InitBasic ==
    \E m \in (make_room(RoomA) \cup make_horizontal_tunnel(4, 24, 12))
                \ {center(RoomA)} :
    \E hp \in {2, 30} :
        InitCalls(FourRooms,
                  <<[NewPlayer(center(RoomA)[1], center(RoomA)[2]) EXCEPT
                        !.fighter = Some(Fighter(30, hp, 2, 5, "Player"))],
                    NewTroll(m[1], m[2])>>)

BasicTurn ==
    /\ pc = "call"
    /\ Called(ai_take_turn(World(game_objects, inventory, <<>>), 1, map,
                           previous_player_position, 0, 0),
              <<[fn |-> "ai_take_turn", monster_id |-> 1,
                 game_objects |-> game_objects]>>)

SpecBasic == InitBasic /\ [][BasicTurn]_vars

(***************************************************************************)
(* ai_take_turn called again and again on an orc that starts Confused,     *)
(* with two turns or none left and a previous Ai that is Basic or is       *)
(* itself a Confused; a troll that takes no turn stands in the room.  The  *)
(* call recorded keeps the two draws and the entities as it found them;    *)
(* messages holds what it added.                                           *)
(***************************************************************************)
InitConfused ==
    \E m \in make_room(Room) \ {center(Room), <<22, 12>>} :
    \E previous_ai \in {Basic, Confused(Basic, 0)} :
    \E num_turns \in {0, 2} :
        InitCalls(make_room(Room),
                  <<NewPlayer(center(Room)[1], center(Room)[2]),
                    [NewOrc(m[1], m[2]) EXCEPT
                        !.ai = Some(Confused(previous_ai, num_turns))],
                    NewTroll(22, 12)>>)

ConfusedTurn ==
    /\ pc = "call"
    /\ \E d \in Draws(game_objects, 1) :
          Called(ai_take_turn(World(game_objects, inventory, <<>>), 1, map,
                              previous_player_position, d[1], d[2]),
                 <<[fn |-> "ai_take_turn", monster_id |-> 1, dx |-> d[1],
                    dy |-> d[2], game_objects |-> game_objects]>>)

SpecConfused == InitConfused /\ [][ConfusedTurn]_vars

(***************************************************************************)
(* move_game_object_by called on the player or a monster, with each delta  *)
(* in -1 .. 1, in a room that also holds a potion and the remains of an    *)
(* orc.  The call recorded keeps the entities and the map as it found them.*)
(***************************************************************************)
InitMove ==
    \E m \in make_room(Room) \ {center(Room)} :
        InitCalls(make_room(Room),
                  <<NewPlayer(center(Room)[1], center(Room)[2]),
                    NewTroll(m[1], m[2]),
                    NewPotion(21, 11),
                    monster_death(World(<<NewOrc(24, 14)>>, <<>>, <<>>), 0).game_objects[1]>>)

MoveBy ==
    /\ pc = "call"
    /\ \E id \in {0, 1}, dx \in -1 .. 1, dy \in -1 .. 1 :
          Called(move_game_object_by(Here, id, dx, dy, map),
                 <<[fn |-> "move_game_object_by", id |-> id, dx |-> dx,
                    dy |-> dy, game_objects |-> game_objects, map |-> map]>>)

SpecMove == InitMove /\ [][MoveBy]_vars

(***************************************************************************)
(* Properties.                                                             *)
(***************************************************************************)

\* C1: confusion round-trip.  Once cast_confusion has set a monster's Ai
\* to Confused{previous_ai: A, num_turns: CONFUSE_TURN_COUNT}, exactly
\* CONFUSE_TURN_COUNT + 1 calls of ai_take_turn on it leave its Ai equal
\* to A.  (calls holds the cast and then one record per ai_take_turn.)
C1_ConfusionRoundTrip ==
    (/\ calls # <<>>
     /\ calls[1].result = "UsedUp"
     /\ Len(calls) = 1 + (CONFUSE_TURN_COUNT + 1))
    => At(game_objects, 1).ai = calls[1].old_ai

\* C2: an item use that succeeds takes the turn.  When handling a key
\* removes an item from the inventory (use_item got UsedUp) and leaves the
\* player alive with some entity holding an Ai, the AI phase of that
\* iteration runs, starting with the first such entity.
C2_ItemUseTakesTurn ==
    [][(/\ pc = "input"
        /\ Len(inventory') < Len(inventory)
        /\ At(game_objects', PLAYER).is_alive
        /\ is_some(next_ai(game_objects', 0)))
       => (pc' = "ai" /\ ai_id' = unwrap(next_ai(game_objects', 0)))]_vars

\* C3: the death behaviour of an entity fires once.  Over any sequence of
\* take_damage calls no entity's death is reported twice: "You died!" is
\* added at most once, and so is "{} is dead !" for each monster.
C3_DeathFiresOnce ==
    \A i, j \in 1 .. Len(messages) :
        (/\ messages[i][1] \in {"You died!", "{} is dead !"}
         /\ messages[j] = messages[i])
        => i = j

\* C4: closest_monster(max_range) returns no entity farther from the
\* player than max_range: the squared distance of the entity returned is
\* at most max_range squared.
C4_ClosestWithinRange ==
    \A i \in 1 .. Len(calls) :
        (calls[i].fn = "closest_monster" /\ is_some(calls[i].result))
        => distance2(At(game_objects, PLAYER),
                     At(game_objects, unwrap(calls[i].result)))
              <= calls[i].max_range * calls[i].max_range

\* C5: the entity at index 0 is the player.  In every state of the game
\* game_objects[0] is the entity main pushed first (named "player", with
\* the Player death callback) and no other index holds it: no move,
\* attack, pickup, item use or death puts another entity at index 0 or
\* removes the player.
C5_PlayerAtIndexZero ==
    /\ Len(game_objects) > 0
    /\ At(game_objects, PLAYER).name = "player"
    /\ At(game_objects, PLAYER).fighter # None
    /\ unwrap(At(game_objects, PLAYER).fighter).on_death = "Player"
    /\ \A i \in Ids(game_objects) \ {PLAYER} : At(game_objects, i).name # "player"

\* A pickup has taken the potion out of game_objects, and the troll has
\* died and the player has been hurt.
C5_Witness ==
    /\ Len(inventory) = 1
    /\ Len(game_objects) = 2
    /\ At(game_objects, 1).name = "remains of troll"
    /\ unwrap(At(game_objects, PLAYER).fighter).hp < 30

\* C6: the inventory never holds more than 9 entities, and "g" pressed on
\* an item with 9 in the inventory leaves game_objects (the item with it)
\* and the inventory as they were and adds one message.
C6_InventoryCapacity ==
    /\ Len(inventory) <= 9
    /\ [][/\ Len(inventory') <= 9
          /\ (/\ KeyG
              /\ Len(inventory) = 9
              /\ \E i \in Ids(game_objects) :
                    /\ is_some(At(game_objects, i).item)
                    /\ pos(At(game_objects, i)) = pos(At(game_objects, PLAYER)))
             => /\ game_objects' = game_objects
                /\ inventory' = inventory
                /\ map' = map
                /\ Len(messages') = 1
                /\ messages'[1][1] = "Cannot pickup {}, inventory is full!"]_vars

\* The tenth pickup has just been refused: 9 in the inventory and an item
\* still under the player.
C6_Witness ==
    /\ Len(inventory) = 9
    /\ messages = <<<<"Cannot pickup {}, inventory is full!", "healing potion">>>>
    /\ \E i \in Ids(game_objects) :
          /\ is_some(At(game_objects, i).item)
          /\ pos(At(game_objects, i)) = pos(At(game_objects, PLAYER))

\* C7: move_game_object_by(id, dx, dy) leaves the entity where it was or
\* puts it at (x + dx, y + dy), the latter only when that tile is not
\* blocked and holds no entity that blocks; nothing else of the entity, no
\* other entity and no tile changes.  (calls[1] holds the arguments and
\* the entities and the map as the call found them.)
C7_MoveBy ==
    calls # <<>> =>
        LET c == calls[1]
            before == At(c.game_objects, c.id)
            after == At(game_objects, c.id)
            dest == <<before.x + c.dx, before.y + c.dy>>
        IN /\ map = c.map
           /\ Len(game_objects) = Len(c.game_objects)
           /\ \A i \in Ids(game_objects) \ {c.id} :
                 At(game_objects, i) = At(c.game_objects, i)
           /\ after = [before EXCEPT !.x = after.x, !.y = after.y]
           /\ pos(after) \in {pos(before), dest}
           /\ pos(after) # pos(before) =>
                 /\ dest \in c.map
                 /\ \A i \in Ids(c.game_objects) :
                       ~(At(c.game_objects, i).blocks
                            /\ pos(At(c.game_objects, i)) = dest)

\* The troll was sent at the player's tile and stayed where it was.
C7_Witness ==
    /\ calls # <<>>
    /\ calls[1].id = 1
    /\ <<At(calls[1].game_objects, 1).x + calls[1].dx,
         At(calls[1].game_objects, 1).y + calls[1].dy>>
          = pos(At(calls[1].game_objects, PLAYER))
    /\ <<calls[1].dx, calls[1].dy>> # <<0, 0>>
    /\ pos(At(game_objects, 1)) = pos(At(calls[1].game_objects, 1))

\* C8: mut_two is never called with two equal indices.  No state of the
\* game follows a failed assertion; no entity with a Fighter that the
\* player can attack (one step up, down, left or right) is the player;
\* and the entity whose turn it is in the AI phase is not at index 0.
C8_MutTwoDistinct ==
    /\ pc # "assertion failed"
    /\ \A d \in {<<0, -1>>, <<0, 1>>, <<-1, 0>>, <<1, 0>>} :
          LET x == At(game_objects, PLAYER).x + d[1]
              y == At(game_objects, PLAYER).y + d[2]
              hits == {i \in Ids(game_objects) :
                          /\ is_some(At(game_objects, i).fighter)
                          /\ pos(At(game_objects, i)) = <<x, y>>}
          IN PLAYER \notin hits
    /\ pc = "ai" => ai_id # PLAYER

\* The player has attacked the troll and the troll has attacked the
\* player, each through mut_two.
C8_Witness ==
    /\ pc = "input"
    /\ messages = <<<<"{} attacks {} for {} hp.", "player", "troll", 4>>,
                    <<"{} attacks {} for {} hp.", "troll", "player", 2>>>>

\* C9: after an arrow key (a move, an attack, or a move dropped because
\* the destination is blocked) that leaves the player alive, the AI phase
\* runs: it starts at the least index that holds an Ai, each of its steps
\* is the turn of an entity that holds an Ai, the next turn is that of the
\* least greater index holding an Ai, and the phase ends when there is
\* none; no step of the phase changes the length of game_objects or of
\* the inventory.
C9_AiPhase ==
    [][LET ais == {i \in Ids(game_objects') : is_some(At(game_objects', i).ai)}
           later == {i \in ais : i > ai_id}
       IN /\ (/\ pc = "input"
              /\ \E key \in Arrows : Input(key, Selected(None))
              /\ At(game_objects', PLAYER).is_alive
              /\ ais # {})
             => (pc' = "ai" /\ ai_id' \in ais /\ \A i \in ais : ai_id' <= i)
          /\ pc = "ai"
             => /\ is_some(At(game_objects, ai_id).ai)
                /\ Len(game_objects') = Len(game_objects)
                /\ Len(inventory') = Len(inventory)
                /\ IF later = {}
                   THEN pc' = "input"
                   ELSE /\ pc' = "ai"
                        /\ ai_id' \in later
                        /\ \A i \in later : ai_id' <= i]_vars

\* An arrow key left the player where it was without an attack (the move
\* was dropped), and the orc, then the troll, attacked in the AI phase
\* that followed.
C9_Witness ==
    /\ pc = "input"
    /\ player_action = "TookTurn"
    /\ pos(At(game_objects, PLAYER)) = previous_player_position
    /\ messages = <<<<"{} attacks {} for {} hp.", "orc", "player", 1>>,
                    <<"{} attacks {} for {} hp.", "troll", "player", 2>>>>

\* C10: a key that takes no turn (pickup, the inventory menu left without
\* a choice, an item use that is Cancelled, the fullscreen toggle, a key
\* that is not recognised) is not followed by the AI phase: the loop reads
\* the next key, or the program has ended in the menu's panic, and no
\* entity with an Ai or a Fighter is changed by the iteration.
C10_NoTurnNoAiPhase ==
    [][LET acting(objs) == {objs[i] : i \in {j \in 1 .. Len(objs) :
                               is_some(objs[j].ai) \/ is_some(objs[j].fighter)}}
       IN (/\ pc = "input"
           /\ \/ KeyG
              \/ KeyAltEnter
              \/ KeyOther
              \/ (KeyI /\ Len(inventory') = Len(inventory)))
          => (/\ pc' # "ai"
              /\ pc' # "exit"
              /\ acting(game_objects') = acting(game_objects))]_vars

\* A potion was Cancelled at full health with the troll in the room.
C10_Witness ==
    /\ pc = "input"
    /\ player_action = "DidntTakeTurn"
    /\ Len(messages) = 2
    /\ messages[2] = <<"Cancelled">>
    /\ \E i \in Ids(game_objects) : is_some(At(game_objects, i).ai)

\* C11: one Confuse at a time.  In every state of the game no entity's Ai
\* is a Confused whose previous_ai is itself a Confused.
C11_NoNestedConfusion ==
    \A i \in Ids(game_objects) :
        (/\ is_some(At(game_objects, i).ai)
         /\ unwrap(At(game_objects, i).ai).tag = "Confused")
        => unwrap(At(game_objects, i).ai).previous_ai.tag # "Confused"

\* C12: no two rooms accepted by make_map intersect.  At every iteration
\* of make_map, two different rooms of rooms do not overlap on both axes
\* (bounds included), and the interiors (x1 + 1 .. x2 - 1 by y1 + 1 ..
\* y2 - 1) are more than one tile apart on some axis: no interior tile of
\* one is next to or on an interior tile of the other.
C12_NoRoomsIntersect ==
    \A i, j \in 1 .. Len(rooms) :
        i # j =>
            LET r == rooms[i]
                o == rooms[j]
            IN /\ ~(r.x1 <= o.x2 /\ r.x2 >= o.x1 /\ r.y1 <= o.y2 /\ r.y2 >= o.y1)
               /\ \/ (o.x1 + 1) - (r.x2 - 1) > 1
                  \/ (r.x1 + 1) - (o.x2 - 1) > 1
                  \/ (o.y1 + 1) - (r.y2 - 1) > 1
                  \/ (r.y1 + 1) - (o.y2 - 1) > 1

\* Two rooms were accepted and a third was rejected.
C12_Witness ==
    /\ Len(rooms) = 2
    /\ rooms_tried = 3

\* C13: in the map make_map builds, every interior tile of every accepted
\* room is empty, and every empty tile is an interior tile of an accepted
\* room or lies on a leg of the tunnel carved between the centres of two
\* rooms accepted one after the other; every other tile is a wall.
C13_CarvedTiles ==
    LET inside(q) == {<<x, y>> : x \in (q.x1 + 1) .. (q.x2 - 1),
                                 y \in (q.y1 + 1) .. (q.y2 - 1)}
        mid(q) == <<(q.x1 + q.x2) \div 2, (q.y1 + q.y2) \div 2>>
        between(v, a, b) == (a <= v /\ v <= b) \/ (b <= v /\ v <= a)
        on_leg(t, i) ==
            LET prev == mid(rooms[i - 1])
                new == mid(rooms[i])
            IN IF calls[i].tunnel = "horizontal, vertical"
               THEN \/ (t[2] = prev[2] /\ between(t[1], prev[1], new[1]))
                    \/ (t[1] = new[1] /\ between(t[2], prev[2], new[2]))
               ELSE \/ (t[1] = prev[1] /\ between(t[2], prev[2], new[2]))
                    \/ (t[2] = new[2] /\ between(t[1], prev[1], new[1]))
    IN pc = "make_map" =>
          /\ \A i \in 1 .. Len(rooms) : inside(rooms[i]) \subseteq map
          /\ \A t \in map :
                \/ \E i \in 1 .. Len(rooms) : t \in inside(rooms[i])
                \/ \E i \in 2 .. Len(rooms) : on_leg(t, i)

\* Three rooms were accepted, the last two joined by a tunnel of two legs
\* that runs through tiles of no room.
C13_Witness ==
    /\ Len(rooms) = 3
    /\ calls[3].tunnel = "vertical, horizontal"
    /\ \E t \in map :
          \A i \in 1 .. Len(rooms) :
              ~(/\ t[1] \in (rooms[i].x1 + 1) .. (rooms[i].x2 - 1)
                /\ t[2] \in (rooms[i].y1 + 1) .. (rooms[i].y2 - 1))

\* C14: attack(attacker, defender) takes damage = attacker's power minus
\* defender's defense (0 for an entity with no Fighter).  When damage > 0
\* the defender's hp goes down by damage (a monster that this kills is
\* left without its Fighter); when damage <= 0 the defender is as it was.
\* The attacker and every other entity are as they were.
C14_Attack ==
    calls # <<>> =>
        LET c == calls[Len(calls)]
            attacker == At(c.game_objects, c.attacker_id)
            defender == At(c.game_objects, c.target_id)
            after == At(game_objects, c.target_id)
            damage == (IF attacker.fighter # <<>> THEN attacker.fighter[1].power ELSE 0)
                         - (IF defender.fighter # <<>> THEN defender.fighter[1].defense ELSE 0)
        IN /\ Len(game_objects) = Len(c.game_objects)
           /\ \A i \in Ids(game_objects) \ {c.target_id} :
                 At(game_objects, i) = At(c.game_objects, i)
           /\ damage <= 0 => after = defender
           /\ (damage > 0 /\ defender.fighter # <<>>) =>
                 IF after.fighter # <<>>
                 THEN after.fighter[1].hp = defender.fighter[1].hp - damage
                 ELSE /\ defender.fighter[1].hp - damage <= 0
                      /\ defender.fighter[1].on_death = "Monster"

\* The troll (power 4) hit the player (defense 2, hp 30), who is left with
\* 28, and then the potion, which has no Fighter, attacked the player with
\* no effect.
C14_Witness ==
    /\ Len(calls) = 2
    /\ calls[1].attacker_id = 2
    /\ calls[1].target_id = PLAYER
    /\ calls[2].attacker_id = 3
    /\ calls[2].target_id = PLAYER
    /\ At(game_objects, PLAYER).fighter[1].hp = 28
    /\ messages = <<<<"{} attacks {}, but it has no effect!", "healing potion", "player">>>>

\* C15: Heal.  cast_heal returns Cancelled exactly when the player's hp
\* equals max_hp, and then hp is unchanged; otherwise it returns UsedUp
\* and the new hp is the lesser of hp + HEAL_AMOUNT and max_hp.  The hp
\* never exceeds max_hp, and nothing else of the world changes.
C15_Heal ==
    calls # <<>> =>
        LET c == calls[Len(calls)]
            before == At(c.game_objects, PLAYER)
            after == At(game_objects, PLAYER)
            max_hp == before.fighter[1].max_hp
        IN /\ c.result = (IF c.hp = max_hp THEN "Cancelled" ELSE "UsedUp")
           /\ c.result = "Cancelled" => after = before
           /\ c.result = "UsedUp" =>
                 /\ after.fighter[1].hp =
                       (IF c.hp + HEAL_AMOUNT < max_hp THEN c.hp + HEAL_AMOUNT
                        ELSE max_hp)
                 /\ after = [before EXCEPT !.fighter[1].hp = after.fighter[1].hp]
           /\ after.fighter[1].hp <= max_hp
           /\ \A i \in Ids(game_objects) \ {PLAYER} :
                 At(game_objects, i) = At(c.game_objects, i)
           /\ Len(game_objects) = Len(c.game_objects)

\* A player at hp 10 of 30 was healed to 14.
C15_Witness ==
    /\ Len(calls) = 1
    /\ calls[1].fn = "cast_heal"
    /\ calls[1].hp = 10
    /\ calls[1].result = "UsedUp"
    /\ At(game_objects, PLAYER).fighter[1].hp = 14
    /\ messages = <<<<"Your wounds start to feel better!">>>>

\* C16: a lightning bolt with no valid target is Cancelled.  When
\* use_item is called on a scroll of lightning bolt and no entity other
\* than the player has a Fighter and an Ai, is in view and is within
\* LIGHTNING_RANGE of the player, the call adds "Cancelled", changes no
\* entity and leaves the inventory, the scroll in it, as it was.
C16_LightningNoTarget ==
    calls # <<>> =>
        LET c == calls[Len(calls)]
            player == At(c.game_objects, PLAYER)
            valid(o) ==
                /\ o.fighter # <<>>
                /\ o.ai # <<>>
                /\ is_in_fov(o.x, o.y, previous_player_position)
                /\ (o.x - player.x) * (o.x - player.x)
                      + (o.y - player.y) * (o.y - player.y)
                      <= LIGHTNING_RANGE * LIGHTNING_RANGE
        IN (/\ At(c.inventory, c.inventory_id).item = <<"ScrollOfLightning">>
            /\ \A i \in Ids(c.game_objects) \ {PLAYER} : ~valid(At(c.game_objects, i)))
           => /\ messages # <<>>
              /\ messages[Len(messages)] = <<"Cancelled">>
              /\ game_objects = c.game_objects
              /\ inventory = c.inventory

\* C17: the frame of use_item(i).  When the effect is UsedUp (the call
\* adds the effect's message first and no "Cancelled"), the inventory is the one
\* before without its entry i, the others in their order; when it is
\* Cancelled (the last message is "Cancelled"), the inventory is as it
\* was.  In both cases game_objects holds the same entities at the same
\* indices: none is added or removed.
C17_UseItemFrame ==
    calls # <<>> =>
        LET c == calls[Len(calls)]
            n == Len(c.inventory)
            i == c.inventory_id + 1
            cancelled == messages[Len(messages)] = <<"Cancelled">>
            used_up == messages[1][1] \in
                          {"Your wounds start to feel better!",
                           "A lightning bolt strikes the {} and damaged it {} hit points!",
                           "{} is confused !"}
        IN /\ messages # <<>>
           /\ cancelled # used_up
           /\ cancelled => inventory = c.inventory
           /\ used_up =>
                 inventory = [k \in 1 .. (n - 1) |->
                                 IF k < i THEN c.inventory[k] ELSE c.inventory[k + 1]]
           /\ Len(game_objects) = Len(c.game_objects)
           /\ \A k \in 1 .. Len(game_objects) :
                 /\ game_objects[k].char \in {c.game_objects[k].char, "%"}
                 /\ game_objects[k].item = c.game_objects[k].item
                 /\ pos(game_objects[k]) = pos(c.game_objects[k])

\* The first of three entries was used up and the two others moved down
\* in their order.
C17_Witness ==
    /\ Len(calls) = 1
    /\ calls[1].inventory_id = 0
    /\ Len(calls[1].inventory) = 3
    /\ inventory = Tail(calls[1].inventory)
    /\ inventory[1].name # inventory[2].name

\* C18: a dead monster is inert for good.  After every step of the game,
\* every entity monster_death has renamed ("remains of ...") has blocks =
\* false, no Fighter and no Ai, and it is not the entity whose turn it is
\* in the AI phase; every such entity of the state before the step is in
\* the state after it exactly as it was (it has not moved and nothing of
\* it has changed); and no message of the iteration names it (it has not
\* attacked, been attacked, been struck or been confused).
C18_DeadMonsterInert ==
    [][LET corpse(o) == o.name \in {"remains of orc", "remains of troll"}
       IN /\ \A i \in 1 .. Len(game_objects') :
                corpse(game_objects'[i]) =>
                    /\ ~game_objects'[i].blocks
                    /\ game_objects'[i].fighter = <<>>
                    /\ game_objects'[i].ai = <<>>
                    /\ ~(pc' = "ai" /\ ai_id' = i - 1)
          /\ \A i \in 1 .. Len(game_objects) :
                corpse(game_objects[i]) =>
                    \E j \in 1 .. Len(game_objects') :
                        game_objects'[j] = game_objects[i]
          /\ \A k \in 1 .. Len(messages') :
                /\ Len(messages'[k]) >= 2 =>
                      messages'[k][2] \notin {"remains of orc", "remains of troll"}
                /\ messages'[k][1] \in {"{} attacks {} for {} hp.",
                                        "{} attacks {}, but it has no effect!"} =>
                      messages'[k][3] \notin {"remains of orc", "remains of troll"}]_vars

\* The orc has died, the player has stepped on its tile, and the troll is
\* still there to take its turns.
C18_Witness ==
    /\ \E i \in Ids(game_objects) :
          /\ At(game_objects, i).name = "remains of orc"
          /\ pos(At(game_objects, i)) = pos(At(game_objects, PLAYER))
    /\ \E i \in Ids(game_objects) :
          /\ At(game_objects, i).name = "troll"
          /\ At(game_objects, i).ai # <<>>
    /\ pc = "input"

\* C19: the turn of a Basic Ai.  If the monster's tile is not in view the
\* turn changes nothing.  If it is in view and the monster is at distance
\* 2.0 or more from the player (dx^2 + dy^2 >= 4) the monster moves by at
\* most one tile on each axis, never away from the player, and there is no
\* attack.  If it is in view and closer, the monster stays where it is,
\* and it attacks exactly when the player's hp is positive.  The Ai is
\* Basic afterwards in every case.
C19_BasicTurn ==
    calls # <<>> =>
        LET c == calls[1]
            monster == At(c.game_objects, 1)
            player == At(c.game_objects, PLAYER)
            after == At(game_objects, 1)
            visible == is_in_fov(monster.x, monster.y, previous_player_position)
            d2 == (monster.x - player.x) * (monster.x - player.x)
                     + (monster.y - player.y) * (monster.y - player.y)
            toward(from, to, target) ==
                \/ to = from
                \/ (to = from + 1 /\ target > from)
                \/ (to = from - 1 /\ target < from)
        IN /\ after.ai = <<[tag |-> "Basic"]>>
           /\ ~visible => (game_objects = c.game_objects /\ messages = <<>>)
           /\ (visible /\ d2 >= 4) =>
                 /\ messages = <<>>
                 /\ At(game_objects, PLAYER) = player
                 /\ after = [monster EXCEPT !.x = after.x, !.y = after.y]
                 /\ toward(monster.x, after.x, player.x)
                 /\ toward(monster.y, after.y, player.y)
           /\ (visible /\ d2 < 4) =>
                 /\ after = monster
                 /\ IF player.fighter[1].hp > 0
                    THEN /\ messages # <<>>
                         /\ messages[1] = <<"{} attacks {} for {} hp.", "troll",
                                            "player", 2>>
                         /\ At(game_objects, PLAYER).fighter[1].hp
                               = player.fighter[1].hp - 2
                    ELSE /\ messages = <<>>
                         /\ game_objects = c.game_objects

\* The troll stood next to the player, whose hp was 0 after the troll's
\* last attack, and its turn left everything as it was.
C19_Witness ==
    /\ calls # <<>>
    /\ At(calls[1].game_objects, PLAYER).fighter[1].hp = 0
    /\ pos(At(calls[1].game_objects, 1)) = <<5, 13>>
    /\ game_objects = calls[1].game_objects
    /\ messages = <<>>

\* C20: the turn of a Confused Ai.  With num_turns >= 0 the monster makes
\* one move_by attempt by the two draws, each in -1 .. 1: it lands on the
\* tile drawn when that tile is not blocked and stays otherwise; nothing
\* else changes, no message is added (no attack), and its Ai becomes
\* Confused with the same previous Ai and num_turns - 1.  With
\* num_turns < 0 nothing moves, the only message added is
\* "{} is no longer confused", and its Ai becomes the previous Ai.
C20_ConfusedTurn ==
    (calls # <<>> /\ unwrap(At(calls[1].game_objects, 1).ai).tag = "Confused") =>
        LET c == calls[1]
            monster == At(c.game_objects, 1)
            ai == unwrap(monster.ai)
            after == At(game_objects, 1)
            free == /\ <<monster.x + c.dx, monster.y + c.dy>> \in map
                    /\ \A i \in 0 .. Len(c.game_objects) - 1 :
                          ~(/\ c.game_objects[i + 1].blocks
                            /\ c.game_objects[i + 1].x = monster.x + c.dx
                            /\ c.game_objects[i + 1].y = monster.y + c.dy)
        IN /\ Len(game_objects) = Len(c.game_objects)
           /\ \A i \in 0 .. Len(game_objects) - 1 :
                 i # 1 => game_objects[i + 1] = c.game_objects[i + 1]
           /\ IF ai.num_turns >= 0
              THEN /\ c.dx \in -1 .. 1 /\ c.dy \in -1 .. 1
                   /\ messages = <<>>
                   /\ after = [monster EXCEPT
                         !.x = IF free THEN monster.x + c.dx ELSE monster.x,
                         !.y = IF free THEN monster.y + c.dy ELSE monster.y,
                         !.ai = <<[tag |-> "Confused",
                                   previous_ai |-> ai.previous_ai,
                                   num_turns |-> ai.num_turns - 1]>>]
              ELSE /\ messages = << <<"{} is no longer confused", "orc">> >>
                   /\ after = [monster EXCEPT !.ai = <<ai.previous_ai>>]

\* The orc, Confused{previous_ai: Confused{Basic, 0}, num_turns: -1}, took
\* its turn: it stayed where it was and its Ai is Confused{Basic, 0}.
C20_Witness ==
    /\ calls # <<>>
    /\ At(calls[1].game_objects, 1).ai
          = <<[tag |-> "Confused",
               previous_ai |-> [tag |-> "Confused", previous_ai |-> [tag |-> "Basic"],
                                num_turns |-> 0],
               num_turns |-> -1]>>
    /\ At(game_objects, 1).ai
          = <<[tag |-> "Confused", previous_ai |-> [tag |-> "Basic"], num_turns |-> 0]>>
    /\ pos(At(game_objects, 1)) = pos(At(calls[1].game_objects, 1))
    /\ messages = << <<"{} is no longer confused", "orc">> >>

\* C21: closest_monster returns the lowest-index valid candidate at the
\* minimum distance.  The valid candidates are the entities other than the
\* player that hold a Fighter and an Ai, are in view and are within
\* max_range of the player; when there is none the result is None, and
\* otherwise it is the candidate of smallest index among those that no
\* candidate is closer than.
C21_ClosestLowestIndex ==
    \A k \in 1 .. Len(calls) :
        calls[k].fn = "closest_monster" =>
            LET d2(i) == distance2(At(game_objects, PLAYER), At(game_objects, i))
                valid == {i \in Ids(game_objects) \ {PLAYER} :
                             /\ At(game_objects, i).fighter # <<>>
                             /\ At(game_objects, i).ai # <<>>
                             /\ is_in_fov(At(game_objects, i).x, At(game_objects, i).y,
                                          previous_player_position)
                             /\ d2(i) <= calls[k].max_range * calls[k].max_range}
                nearest == {i \in valid : \A j \in valid : d2(i) <= d2(j)}
            IN IF valid = {}
               THEN calls[k].result = <<>>
               ELSE /\ calls[k].result # <<>>
                    /\ calls[k].result[1] \in nearest
                    /\ \A j \in nearest : calls[k].result[1] <= j

\* C22: no two blocking entities share a tile.  In every state of make_map
\* from the first accepted room on (the player has been moved to that
\* room's centre, after the room was populated), two different entities
\* that both block never have the same position; so no monster stands on
\* the player's tile.
C22_NoTwoBlockers ==
    rooms # <<>> =>
        \A i, j \in Ids(game_objects) :
            (/\ i # j
             /\ At(game_objects, i).blocks
             /\ At(game_objects, j).blocks)
            => pos(At(game_objects, i)) # pos(At(game_objects, j))

\* C23, corrected: every grid index is inside the grid.  make_map carves
\* no tile of the outermost ring of the grid; every entity stands strictly
\* inside that ring in every state; from the first accepted room on (when
\* the player is moved from the position main built it with to the room's
\* centre), through the rest of make_map and the game, every entity stands
\* on a carved tile; and no step of the player or of a monster indexes the
\* map outside the grid.
C23_InsideGrid ==
    /\ \A t \in map : /\ t[1] \in 1 .. (MAP_WIDTH - 2)
                      /\ t[2] \in 1 .. (MAP_HEIGHT - 2)
    /\ \A i \in Ids(game_objects) :
          /\ At(game_objects, i).x \in 1 .. (MAP_WIDTH - 2)
          /\ At(game_objects, i).y \in 1 .. (MAP_HEIGHT - 2)
    /\ (pc # "make_map" \/ rooms # <<>>) =>
          \A i \in Ids(game_objects) : pos(At(game_objects, i)) \in map
    /\ pc # "index out of bounds"

\* C23 as it is worded: make_map carves no tile of the outermost ring,
\* every entity stands on a walkable tile strictly inside the ring in every
\* state of generation and play, and no step indexes the map outside the
\* grid.
C23_AlwaysOnWalkable ==
    /\ \A t \in map : /\ t[1] \in 1 .. (MAP_WIDTH - 2)
                      /\ t[2] \in 1 .. (MAP_HEIGHT - 2)
    /\ \A i \in Ids(game_objects) : pos(At(game_objects, i)) \in map
    /\ pc # "index out of bounds"

\* A confused orc stands in the last corner of the room in the last corner
\* of the grid, next to the ring on two sides, after it has taken a turn.
C23_Witness ==
    /\ pc = "input"
    /\ \E i \in Ids(game_objects) :
          /\ pos(At(game_objects, i)) = <<MAP_WIDTH - 2, MAP_HEIGHT - 2>>
          /\ At(game_objects, i).ai
                = <<[tag |-> "Confused", previous_ai |-> [tag |-> "Basic"],
                     num_turns |-> CONFUSE_TURN_COUNT - 1]>>

\* The tiles of the map that 4-connected steps over tiles of the map reach
\* from the tiles visited; frontier holds the tiles visited last.
RECURSIVE Reached(_, _)
Reached(visited, frontier) ==
    IF frontier = {} THEN visited
    ELSE LET new == {t \in UNION {{<<f[1] + 1, f[2]>>, <<f[1] - 1, f[2]>>,
                                   <<f[1], f[2] + 1>>, <<f[1], f[2] - 1>>} :
                                     f \in frontier} :
                        t \in map /\ t \notin visited}
         IN Reached(visited \cup new, new)

\* C24: make_map accepts the first room it draws, and at most MAX_ROOMS
\* rooms; the player stands on the centre of the first room, which is
\* walkable; and the centre of every accepted room is reached from the
\* player's tile by 4-connected steps over walkable tiles, whatever the
\* order of the two legs of each corridor.
C24_RoomsConnected ==
    /\ Len(rooms) <= MAX_ROOMS
    /\ rooms_tried >= 1 =>
          /\ rooms # <<>>
          /\ Len(rooms) <= rooms_tried
          /\ LET start == <<game_objects[1].x, game_objects[1].y>>
                 reach == Reached({start}, {start})
             IN /\ start = <<(rooms[1].x1 + rooms[1].x2) \div 2,
                             (rooms[1].y1 + rooms[1].y2) \div 2>>
                /\ start \in map
                /\ \A i \in 1 .. Len(rooms) :
                      <<(rooms[i].x1 + rooms[i].x2) \div 2,
                        (rooms[i].y1 + rooms[i].y2) \div 2>> \in reach

\* make_map has run its MAX_ROOMS iterations and accepted a room in each,
\* with corridors of both orders.
C24_Witness ==
    /\ rooms_tried = MAX_ROOMS
    /\ Len(rooms) = MAX_ROOMS
    /\ calls[2].tunnel = "horizontal, vertical"
    /\ calls[MAX_ROOMS].tunnel = "vertical, horizontal"
    /\ <<(rooms[MAX_ROOMS].x1 + rooms[MAX_ROOMS].x2) \div 2,
         (rooms[MAX_ROOMS].y1 + rooms[MAX_ROOMS].y2) \div 2>>
          \in Reached({<<game_objects[1].x, game_objects[1].y>>},
                      {<<game_objects[1].x, game_objects[1].y>>})

\* C25: in every state between two steps of the game, every entity that
\* holds an Ai also holds a Fighter with hp > 0, is alive and blocks; and
\* every entity that holds a Fighter has hp <= max_hp and is alive exactly
\* when its hp > 0.
C25_AliveIffHp ==
    \A i \in Ids(game_objects) :
        LET o == At(game_objects, i)
        IN /\ o.ai # <<>> =>
                 /\ o.fighter # <<>>
                 /\ o.fighter[1].hp > 0
                 /\ o.is_alive
                 /\ o.blocks
           /\ o.fighter # <<>> =>
                 /\ o.fighter[1].hp <= o.fighter[1].max_hp
                 /\ o.is_alive <=> (o.fighter[1].hp > 0)

\* The player has died (is_alive false, hp 0 or less, Fighter kept) to a
\* troll that the player had hurt and that still holds its Ai.
C25_Witness ==
    /\ ~At(game_objects, PLAYER).is_alive
    /\ At(game_objects, PLAYER).fighter # <<>>
    /\ At(game_objects, PLAYER).fighter[1].hp <= 0
    /\ \E i \in Ids(game_objects) :
          /\ At(game_objects, i).ai # <<>>
          /\ At(game_objects, i).fighter[1].hp < At(game_objects, i).fighter[1].max_hp

\* C26: the dead player's world stands still.  In every step taken while
\* the player's hp is 0 or less, the player's hp does not change (the
\* monsters that come later in the AI phase do not attack); and once that
\* phase is over, a key changes no entity and not the inventory and starts
\* no AI phase: the loop reads the next key or exits.
C26_DeadPlayerFrozen ==
    [][game_objects[1].fighter[1].hp <= 0 =>
          /\ game_objects'[1].fighter = game_objects[1].fighter
          /\ pc = "input" =>
                /\ game_objects' = game_objects
                /\ inventory' = inventory
                /\ pc' \in {"input", "exit"}]_vars

\* The orc's attack has killed the player, and the troll, which holds its
\* Ai, stands next to the player and has its turn after the orc, has not
\* attacked: the phase is over and its last messages are the orc's attack
\* and the player's death.
C26_Witness ==
    /\ pc = "input"
    /\ ~At(game_objects, PLAYER).is_alive
    /\ Len(messages) >= 2
    /\ messages[Len(messages)] = <<"You died!">>
    /\ messages[Len(messages) - 1] = <<"{} attacks {} for {} hp.", "orc", "player", 1>>
    /\ At(game_objects, 2).ai # <<>>
    /\ distance2(At(game_objects, 2), At(game_objects, PLAYER)) < 4

====
